---------------------------- MODULE Spec2Model ----------------------------
(***************************************************************************)
(* State-machine model of the G-1 arm web controller (src/pnp.py): the     *)
(* background control loop run_control_loop, the Shared record it shares   *)
(* with the Flask request handlers (status, nudge, set_goal, go,           *)
(* set_robot), the startup pose sequencer and the SIGINT handler _sigint.  *)
(*                                                                         *)
(* Units.  Lengths are integers in millimetres, so that the workspace      *)
(* bounds, the startup poses and the 0.03 m / 0.05 m / 0.002 m thresholds  *)
(* are exact.  Times are integers in units of 5 ms, the floor of the loop  *)
(* period: 20 ms is 4 units and the 0.5 s override window is 100 units.    *)
(* float32 rounding of the goal is not modelled.                           *)
(*                                                                         *)
(* Granularity.  The loop reads and writes hold_mode, collision_freeze,    *)
(* manual_until, mode_text and stop WITHOUT taking the lock (lines 200,    *)
(* 236-253, 309), so each such access is a step of its own and a handler   *)
(* that holds the lock can run between any two of them.  The loop takes    *)
(* the lock for lines 203-207, 254-255, 259-260 and 264-269.  The          *)
(* handlers hold the lock for their whole body; their statements are       *)
(* separate steps.                                                         *)
(***************************************************************************)
EXTENDS Integers, Sequences, FiniteSets, TLC

VARIABLES
    \* ---- class Shared (src/pnp.py:170-180)
    goal_xyz,           \* shared.goal_xyz, <<x, y, z>> in mm
    out_sim,            \* shared.out_sim
    out_robot,          \* shared.out_robot
    hold_mode,          \* shared.hold_mode
    collision_freeze,   \* shared.collision_freeze
    mode_text,          \* shared.mode_text
    stop,               \* shared.stop
    manual_until,       \* shared.manual_until
    lock,               \* holder of shared._lock: "free", "loop" or "handler"
    \* ---- collaborators
    robot_ok,           \* robot.ok, the bus connectivity flag
    has_gids,           \* env has _arm_gids and _protect_gids (line 216)
    has_mujoco,         \* env has _mujoco, line 217: mj is not None
    qpos,               \* env.data.qpos, the joint configuration
    env_p_goal,         \* env.p_goal, the simulation's goal slot
    clock,              \* time.time()
    \* ---- run_control_loop locals (src/pnp.py:186-309)
    pc,                 \* position of the loop thread
    p_goal,             \* the clamped goal read at line 204
    l_out_sim,          \* local out_sim, line 206
    l_out_robot,        \* local out_robot, line 207
    collided,           \* local collided, lines 215-232
    dist,               \* local dist, line 235
    last_safe_qpos,     \* local last_safe_qpos, None or a configuration
    last_robot_send,    \* local last_robot_send
    step_done,          \* termination flag returned by this tick's env.step:
                        \* line 260 keeps it in done, line 255 discards it
    \* ---- request handlers and startup sequencer
    hpc,                \* position of the handler that holds the lock
    st_idx,             \* number of startup poses already written
    st_wake,            \* time at which the startup sequencer's sleep(1) ends
    \* ---- the main thread: SIGINT handler _sigint (src/pnp.py:442-450)
    sig,                \* stack of running _sigint frames, innermost last
    closes,             \* number of env.close() calls made so far
    exited,             \* SystemExit was raised: the process is gone
    \* ---- history variables (not program state; used to state properties)
    ticks,              \* loop iterations started, bounds the exploration
    forced_run,         \* this tick's test at line 249 found now < manual_until
    coll_latch          \* a scan reported a collision and no go / set_goal
                        \* / startup write has run since

vars == << goal_xyz, out_sim, out_robot, hold_mode, collision_freeze, mode_text,
           stop, manual_until, lock, robot_ok, has_gids, has_mujoco, qpos,
           env_p_goal, clock, pc, p_goal, l_out_sim, l_out_robot, collided, dist, last_safe_qpos,
           last_robot_send, step_done, hpc, st_idx, st_wake, sig, closes,
           exited, ticks, forced_run, coll_latch >>

sharedFlags == << hold_mode, collision_freeze, manual_until >>
loopLocals  == << p_goal, l_out_sim, l_out_robot, collided, dist,
                  last_safe_qpos, last_robot_send, step_done >>
envVars     == << qpos, env_p_goal >>
startupVars == << st_idx, st_wake >>
procVars    == << sig, closes, exited >>
capVars     == << has_gids, has_mujoco >>

-----------------------------------------------------------------------------
(* Program constants.                                                      *)

\* low / high of the workspace, mm (lines 194-195)
low  == << -100, -600, 400 >>
high == << 600, 600, 1400 >>

\* dist < 0.03 enters HOLD (line 241), dist > 0.05 leaves it (line 243), mm
EnterDist == 30
ExitDist == 50

\* penetration < 0.002 is ignored (line 229), mm
PenThreshold == 2

\* manual_until = time.time() + 0.5 (lines 371, 422), in 5 ms units
OverrideWindow == 100

\* (now - last_robot_send) > 0.02 (line 276), in 5 ms units
MinInterval == 4

\* time.sleep(max(0.005, rate_s)) (line 201), in 5 ms units
SleepFloor == 1

\* time.sleep(1) between startup poses (line 372), in 5 ms units
StartupSleep == 200

\* the startup poses of run_poses_on_startup (lines 358-364), mm
poses == << << 297, 152, 888 >>, << 297, 172, 988 >>, << 297, 132, 1008 >>,
            << 297, 92, 1008 >>, << 297, 112, 728 >> >>

\* fallback initial goal p0 = (0.2, 0.0, 0.8) (line 345), mm
InitGoal == << 200, 0, 800 >>

\* last_safe_qpos = None (line 197): a value that is no configuration
None == -1

-----------------------------------------------------------------------------
(* Bounds and input sets of the model.                                     *)

\* loop iterations followed
MaxTicks == 3

\* the value of time.time() when the program starts; the epoch is far more
\* than 20 ms in the past, so the first send is never rate-limited
StartTime == 5

\* a goal a client posts to /set_goal that lies outside the workspace on
\* every axis (above on x, below on y and z); goals inside it are the initial
\* goal and the startup poses
GoalInputs == { << 900, -700, 300 >> }

\* (axis, delta) pairs a client posts to /nudge; "w" is an unknown axis
NudgeInputs == { << "x", -700 >>, << "w", 400 >> }

\* nudges are followed while every coordinate stays within GoalSlack mm of
\* the workspace
GoalSlack == 400

\* joint configurations: the reset pose, a pose with harmless contacts, a
\* pose in which the arm penetrates a protected geometry
DefaultPose == 0
QposValues == { 0, 1, 2 }

\* the same and a pose whose arm / protected contact penetrates by exactly
\* the 2 mm threshold
ScanConfigs == QposValues \cup { 3 }

\* the goal env.reset() leaves in env.p_goal
ResetGoal == << 0, 0, 0 >>

\* SIGINT signals delivered to the process
MaxSignals == 2

\* distances to the goal the forward kinematics may report, mm
DistValues == { 20, 30, 40, 50, 60 }

-----------------------------------------------------------------------------
(* Pure helpers.                                                           *)

Min(a, b) == IF a <= b THEN a ELSE b
Max(a, b) == IF a >= b THEN a ELSE b

\* a variant of Clip that bounds the goal from above only
ClipAbove(g) == [ i \in 1..3 |-> Min(g[i], high[i]) ]

\* _np.clip(g, low, high), line 204: minimum(maximum(g, low), high) per axis
Clip(g) == [ i \in 1..3 |-> Min(Max(g[i], low[i]), high[i]) ]

\* index of an axis name, 0 for a name nudge does not know (lines 403-408)
AxisIndex(axis) ==
    CASE axis = "x" -> 1
      [] axis = "y" -> 2
      [] axis = "z" -> 3
      [] OTHER -> 0

\* shared.goal_xyz[k] += delta (lines 403-408)
NudgeGoal(g, axis, delta) ==
    IF AxisIndex(axis) = 0 THEN g
    ELSE [ g EXCEPT ![AxisIndex(axis)] = @ + delta ]

\* env.data.contact for a configuration: records of the two geometry classes,
\* whether each body's name contains "hand", and the signed distance in mm
ContactsOf(q) ==
    CASE q = 0 -> << >>
      [] q = 1 -> << [geom1 |-> "arm", geom2 |-> "prot", hand1 |-> TRUE,
                      hand2 |-> FALSE, dist |-> -5],
                     [geom1 |-> "prot", geom2 |-> "arm", hand1 |-> FALSE,
                      hand2 |-> FALSE, dist |-> -1],
                     [geom1 |-> "arm", geom2 |-> "other", hand1 |-> FALSE,
                      hand2 |-> FALSE, dist |-> -9] >>
      [] q = 3 -> << [geom1 |-> "arm", geom2 |-> "prot", hand1 |-> FALSE,
                      hand2 |-> FALSE, dist |-> -2] >>
      [] OTHER -> << [geom1 |-> "arm", geom2 |-> "other", hand1 |-> FALSE,
                      hand2 |-> FALSE, dist |-> -9],
                     [geom1 |-> "prot", geom2 |-> "arm", hand1 |-> FALSE,
                      hand2 |-> FALSE, dist |-> -5] >>

\* one contact of the scan, lines 219-231: TRUE when it sets collided
UnsafeContact(c) ==
    /\ ~(c.hand1 \/ c.hand2)
    /\ \/ (c.geom1 = "arm" /\ c.geom2 = "prot")
       \/ (c.geom2 = "arm" /\ c.geom1 = "prot")
    /\ ~(Max(0, -c.dist) < PenThreshold)

\* the scan of lines 215-232 over a contact list
Scan(contacts) == \E i \in 1..Len(contacts) : UnsafeContact(contacts[i])

\* lines 220-224: the body names are looked up, and a contact of a "hand"
\* body skipped, only when mj is not None
HandSkipped(mj, c) == mj /\ (c.hand1 \/ c.hand2)

\* one contact of the scan, lines 219-231, in an environment with or
\* without the mujoco module
UnsafeContactIn(mj, c) ==
    /\ ~HandSkipped(mj, c)
    /\ \/ (c.geom1 = "arm" /\ c.geom2 = "prot")
       \/ (c.geom2 = "arm" /\ c.geom1 = "prot")
    /\ ~(Max(0, -c.dist) < PenThreshold)

\* lines 215-232: collided stays False when the environment lacks the
\* geometry id sets (line 216)
ScanEnv(gids, mj, contacts) ==
    gids /\ \E i \in 1..Len(contacts) : UnsafeContactIn(mj, contacts[i])

\* a variant of EntersHold that also enters HOLD at exactly 0.03 m
EntersHoldInclusive(h, d) == ~h /\ d <= EnterDist

\* line 241: not hold_mode and dist < 0.03
EntersHold(h, d) == ~h /\ d < EnterDist

\* line 243: hold_mode and dist > 0.05
LeavesHold(h, d) == h /\ d > ExitDist

\* line 249: now < shared.manual_until
InOverride(now, until) == now < until

\* a variant of MaySend that sends again after exactly 20 ms
MaySendInclusive(o, ok, now, last) == o /\ ok /\ (now - last) >= MinInterval

\* line 276: out_robot and robot.ok and (now - last_robot_send) > 0.02
MaySend(o, ok, now, last) == o /\ ok /\ (now - last) > MinInterval

\* line 309: "HOLD" if hold_mode else ("COLL" if collision_freeze else "RUN ")
ModeLabel(h, cf) == IF h THEN "HOLD" ELSE (IF cf THEN "COLL" ELSE "RUN ")

-----------------------------------------------------------------------------
(* Initial state: Shared.__init__ (lines 171-180), main (lines 347-349)    *)
(* and run_control_loop up to the loop (lines 191-198).                    *)

InitEnv(oks, gids, mjs) ==
    /\ goal_xyz = InitGoal
    /\ out_sim = TRUE
    /\ robot_ok \in oks
    /\ has_gids \in gids
    /\ has_mujoco \in mjs
    /\ out_robot \in { b \in BOOLEAN : b => robot_ok }
    /\ hold_mode = FALSE
    /\ collision_freeze = FALSE
    /\ mode_text = "HOLD"
    /\ stop = FALSE
    /\ manual_until = 0
    /\ lock = "free"
    /\ qpos = DefaultPose
    /\ env_p_goal = ResetGoal
    /\ clock = StartTime
    /\ pc = "top"
    /\ p_goal = InitGoal
    /\ l_out_sim = TRUE
    /\ l_out_robot = FALSE
    /\ collided = FALSE
    /\ dist = None
    /\ last_safe_qpos = None
    /\ last_robot_send = 0
    /\ step_done = FALSE
    /\ hpc = "idle"
    /\ st_idx = 0
    /\ st_wake = 0
    /\ sig = << >>
    /\ closes = 0
    /\ exited = FALSE
    /\ ticks = 0
    /\ forced_run = FALSE
    /\ coll_latch = FALSE

\* the environment make_env builds (line 339) has the geometry id sets and
\* the mujoco module
InitWith(oks) == InitEnv(oks, { TRUE }, { TRUE })

-----------------------------------------------------------------------------
(* The control loop, run_control_loop (lines 200-309).                     *)

\* a variant of LoopTop that starts the next iteration whatever the flag is
LoopTopIgnoresStop ==
    /\ pc = "top"
    /\ pc' = "sleep"
    /\ UNCHANGED << goal_xyz, out_sim, out_robot, sharedFlags, mode_text, stop,
                    procVars, lock, robot_ok, capVars, envVars, clock, loopLocals, hpc,
                    startupVars, ticks, forced_run, coll_latch >>

\* line 200: while not shared.stop
LoopTop ==
    /\ pc = "top"
    /\ pc' = IF stop THEN "exit" ELSE "sleep"
    /\ UNCHANGED << goal_xyz, out_sim, out_robot, sharedFlags, mode_text, stop,
                    procVars, lock, robot_ok, capVars, envVars, clock, loopLocals, hpc,
                    startupVars, ticks, forced_run, coll_latch >>

\* line 201: time.sleep(max(0.005, rate_s)); the only place time passes.
\* MaxTicks iterations are followed, and whatever the count the iteration
\* that was already started when the stop flag was set.
LoopSleep(durations) ==
    /\ pc = "sleep"
    /\ ticks < MaxTicks \/ stop
    /\ \E d \in durations : clock' = clock + d
    /\ ticks' = IF ticks < MaxTicks THEN ticks + 1 ELSE ticks
    /\ pc' = "read"
    /\ UNCHANGED << goal_xyz, out_sim, out_robot, sharedFlags, mode_text, stop,
                    procVars, lock, robot_ok, capVars, envVars, loopLocals, hpc, startupVars,
                    forced_run, coll_latch >>

\* lines 203-212: under the lock, read the goal clamped, write it back, copy
\* the output flags; then apply the goal to the simulation
LoopRead ==
    /\ pc = "read"
    /\ lock = "free"
    /\ p_goal' = Clip(goal_xyz)
    /\ goal_xyz' = p_goal'
    /\ l_out_sim' = out_sim
    /\ l_out_robot' = (out_robot /\ robot_ok)
    /\ env_p_goal' = p_goal'
    /\ pc' = "scan"
    /\ UNCHANGED << out_sim, out_robot, sharedFlags, mode_text, stop,
                    procVars, lock, robot_ok, capVars, qpos, clock, collided, dist, last_safe_qpos,
                    last_robot_send, step_done, hpc, startupVars, ticks, forced_run,
                    coll_latch >>

\* lines 215-235: the contact scan and the distance to the goal
LoopScan(dists) ==
    /\ pc = "scan"
    /\ collided' = ScanEnv(has_gids, has_mujoco, ContactsOf(qpos))
    /\ dist' \in dists
    /\ coll_latch' = (coll_latch \/ collided')
    /\ pc' = "l236"
    /\ UNCHANGED << goal_xyz, out_sim, out_robot, sharedFlags, mode_text, stop,
                    procVars, lock, robot_ok, capVars, envVars, clock, p_goal, l_out_sim,
                    l_out_robot, last_safe_qpos, last_robot_send,
                    step_done, hpc,
                    startupVars, ticks, forced_run >>

\* frame of an arbiter step: it touches hold_mode or collision_freeze only
ArbFrame ==
    UNCHANGED << goal_xyz, out_sim, out_robot, manual_until, mode_text, stop,
                 procVars, lock, robot_ok, capVars, envVars, clock, loopLocals, hpc, startupVars,
                 ticks, forced_run, coll_latch >>

\* lines 236-237: if collided: shared.collision_freeze = True
ArbFreeze ==
    /\ pc = "l236"
    /\ collision_freeze' = (IF collided THEN TRUE ELSE collision_freeze)
    /\ pc' = "l238"
    /\ UNCHANGED hold_mode
    /\ ArbFrame

\* a variant of ArbTestFreeze that always takes the hysteresis branch
ArbTestFreezeSkipped ==
    /\ pc = "l238"
    /\ pc' = "l241"
    /\ UNCHANGED << hold_mode, collision_freeze >>
    /\ ArbFrame

\* line 238: if shared.collision_freeze
ArbTestFreeze ==
    /\ pc = "l238"
    /\ pc' = IF collision_freeze THEN "l239" ELSE "l241"
    /\ UNCHANGED << hold_mode, collision_freeze >>
    /\ ArbFrame

\* line 239: shared.hold_mode = True
ArbHoldOnFreeze ==
    /\ pc = "l239"
    /\ hold_mode' = TRUE
    /\ pc' = "l248"
    /\ UNCHANGED collision_freeze
    /\ ArbFrame

\* line 241: if not shared.hold_mode and dist < 0.03
ArbTestEnter ==
    /\ pc = "l241"
    /\ pc' = IF EntersHold(hold_mode, dist) THEN "l242" ELSE "l243"
    /\ UNCHANGED << hold_mode, collision_freeze >>
    /\ ArbFrame

\* line 242: shared.hold_mode = True
ArbEnter ==
    /\ pc = "l242"
    /\ hold_mode' = TRUE
    /\ pc' = "l248"
    /\ UNCHANGED collision_freeze
    /\ ArbFrame

\* line 243: elif shared.hold_mode and dist > 0.05
ArbTestLeave ==
    /\ pc = "l243"
    /\ pc' = IF LeavesHold(hold_mode, dist) THEN "l244" ELSE "l248"
    /\ UNCHANGED << hold_mode, collision_freeze >>
    /\ ArbFrame

\* line 244: shared.hold_mode = False
ArbLeave ==
    /\ pc = "l244"
    /\ hold_mode' = FALSE
    /\ pc' = "l245"
    /\ UNCHANGED collision_freeze
    /\ ArbFrame

\* line 245: shared.collision_freeze = False
ArbLeaveFreeze ==
    /\ pc = "l245"
    /\ collision_freeze' = FALSE
    /\ pc' = "l248"
    /\ UNCHANGED hold_mode
    /\ ArbFrame

\* lines 248-249: now = time.time(); if now < shared.manual_until.
\* dist is not read after line 243: the model forgets it here.
ArbOverrideTest ==
    /\ pc = "l248"
    /\ forced_run' = InOverride(clock, manual_until)
    /\ pc' = IF InOverride(clock, manual_until) THEN "l250" ELSE "l253"
    /\ dist' = None
    /\ UNCHANGED << goal_xyz, out_sim, out_robot, sharedFlags, mode_text, stop,
                    procVars, lock, robot_ok, capVars, envVars, clock, p_goal, l_out_sim,
                    l_out_robot, collided, last_safe_qpos, last_robot_send,
                    step_done,
                    hpc, startupVars, ticks, coll_latch >>

\* line 250: shared.hold_mode = False
ArbOverrideHold ==
    /\ pc = "l250"
    /\ hold_mode' = FALSE
    /\ pc' = "l251"
    /\ UNCHANGED collision_freeze
    /\ ArbFrame

\* a variant of ArbOverrideFreeze that leaves collision_freeze as it is
ArbOverrideFreezeKept ==
    /\ pc = "l251"
    /\ pc' = "l253"
    /\ UNCHANGED << hold_mode, collision_freeze >>
    /\ ArbFrame

\* line 251: shared.collision_freeze = False
ArbOverrideFreeze ==
    /\ pc = "l251"
    /\ collision_freeze' = FALSE
    /\ pc' = "l253"
    /\ UNCHANGED hold_mode
    /\ ArbFrame

\* line 253: if shared.hold_mode or not (out_sim or out_robot)
StepChoose ==
    /\ pc = "l253"
    /\ pc' = IF hold_mode \/ ~(l_out_sim \/ l_out_robot) THEN "l254" ELSE "l258"
    /\ UNCHANGED << hold_mode, collision_freeze >>
    /\ ArbFrame

\* line 254: with shared.with_lock(), the null-action branch
NullAcquire ==
    /\ pc = "l254"
    /\ lock = "free"
    /\ lock' = "loop"
    /\ pc' = "l255"
    /\ UNCHANGED << goal_xyz, out_sim, out_robot, sharedFlags, mode_text, stop,
                    procVars, robot_ok, capVars, envVars, clock, loopLocals, hpc, startupVars,
                    ticks, forced_run, coll_latch >>

\* lines 255-256: env.step(zeros) under the lock, whose termination flag is
\* discarded ("obs, _, _, _, _"), then env._step_count = 0
NullStep(configs) ==
    /\ pc = "l255"
    /\ qpos' \in configs
    /\ step_done' \in BOOLEAN
    /\ lock' = "free"
    /\ pc' = "l275"
    /\ UNCHANGED << goal_xyz, out_sim, out_robot, sharedFlags, mode_text, stop,
                    procVars, robot_ok, capVars, env_p_goal, clock, p_goal, l_out_sim, l_out_robot,
                    collided, dist, last_safe_qpos, last_robot_send, hpc, startupVars,
                    ticks, forced_run, coll_latch >>

\* lines 258-259: policy.predict(obs) without the lock, then the lock is taken
PolicyPredict ==
    /\ pc = "l258"
    /\ lock = "free"
    /\ lock' = "loop"
    /\ pc' = "l260"
    /\ UNCHANGED << goal_xyz, out_sim, out_robot, sharedFlags, mode_text, stop,
                    procVars, robot_ok, capVars, envVars, clock, loopLocals, hpc, startupVars,
                    ticks, forced_run, coll_latch >>

\* lines 260-263: env.step(action) under the lock; the configuration after the
\* step becomes last_safe_qpos when this tick's scan was clean; done decides
\* whether the reset of lines 264-272 follows
PolicyStep(configs) ==
    /\ pc = "l260"
    /\ qpos' \in configs
    /\ lock' = "free"
    /\ last_safe_qpos' = IF ~collided THEN qpos' ELSE last_safe_qpos
    /\ step_done' \in BOOLEAN
    /\ pc' = IF step_done' THEN "l264" ELSE "l275"
    /\ UNCHANGED << goal_xyz, out_sim, out_robot, sharedFlags, mode_text, stop,
                    procVars, robot_ok, capVars, env_p_goal, clock, p_goal, l_out_sim, l_out_robot,
                    collided, dist, last_robot_send, hpc, startupVars, ticks,
                    forced_run, coll_latch >>

\* line 264: with shared.with_lock(), the reset branch
ResetAcquire ==
    /\ pc = "l264"
    /\ lock = "free"
    /\ lock' = "loop"
    /\ pc' = "l265"
    /\ UNCHANGED << goal_xyz, out_sim, out_robot, sharedFlags, mode_text, stop,
                    procVars, robot_ok, capVars, envVars, clock, loopLocals, hpc, startupVars,
                    ticks, forced_run, coll_latch >>

\* a variant of RestoredPose that keeps the pose env.reset() puts
RestoredPoseDefault(safe) == DefaultPose

\* the configuration lines 265-269 leave in env.data.qpos: env.reset() puts
\* the default pose, which last_safe_qpos overwrites when it is not None
RestoredPose(safe) == IF safe # None THEN safe ELSE DefaultPose

\* lines 265-269: env.reset(), restore last_safe_qpos, mj_forward; line 269
\* uses env._mujoco unguarded and raises when the environment has none
ResetRestore ==
    /\ pc = "l265"
    /\ qpos' = RestoredPose(last_safe_qpos)
    /\ env_p_goal' = ResetGoal
    /\ lock' = "free"
    /\ pc' = IF last_safe_qpos # None /\ ~has_mujoco THEN "raised" ELSE "l270"
    /\ UNCHANGED << goal_xyz, out_sim, out_robot, sharedFlags, mode_text, stop,
                    procVars, robot_ok, capVars, clock, loopLocals, hpc, startupVars, ticks,
                    forced_run, coll_latch >>

\* lines 270-272: env.p_goal[:] = p_goal
ReapplyGoal ==
    /\ pc = "l270"
    /\ env_p_goal' = p_goal
    /\ pc' = "l275"
    /\ UNCHANGED << goal_xyz, out_sim, out_robot, sharedFlags, mode_text, stop,
                    procVars, lock, robot_ok, capVars, qpos, clock, loopLocals, hpc, startupVars,
                    ticks, forced_run, coll_latch >>

\* lines 275-306: robot.send_qpos at most every 20 ms; last_robot_send = now
\* is written exactly when a send is made
RobotSend ==
    /\ pc = "l275"
    /\ last_robot_send' =
          IF MaySend(l_out_robot, robot_ok, clock, last_robot_send)
          THEN clock ELSE last_robot_send
    /\ pc' = "l309"
    /\ UNCHANGED << goal_xyz, out_sim, out_robot, sharedFlags, mode_text, stop,
                    procVars, lock, robot_ok, capVars, envVars, clock, p_goal, l_out_sim,
                    l_out_robot, collided, dist, last_safe_qpos, step_done,
                    hpc,
                    startupVars, ticks, forced_run, coll_latch >>

\* line 309: shared.mode_text = ...; the tick ends, collided and forced_run
\* are set anew by the next tick
PublishLabel ==
    /\ pc = "l309"
    /\ mode_text' = ModeLabel(hold_mode, collision_freeze)
    /\ collided' = FALSE
    /\ forced_run' = FALSE
    /\ step_done' = FALSE
    /\ pc' = "top"
    /\ UNCHANGED << goal_xyz, out_sim, out_robot, sharedFlags, stop,
                    procVars, lock, robot_ok, capVars, envVars, clock, p_goal, l_out_sim, l_out_robot,
                    dist, last_safe_qpos, last_robot_send, hpc, startupVars,
                    ticks, coll_latch >>

Loop(durations, dists, configs) ==
    \/ LoopTop \/ LoopSleep(durations) \/ LoopRead \/ LoopScan(dists)
    \/ ArbFreeze \/ ArbTestFreeze \/ ArbHoldOnFreeze
    \/ ArbTestEnter \/ ArbEnter \/ ArbTestLeave \/ ArbLeave \/ ArbLeaveFreeze
    \/ ArbOverrideTest \/ ArbOverrideHold \/ ArbOverrideFreeze
    \/ StepChoose \/ NullAcquire \/ NullStep(configs)
    \/ PolicyPredict \/ PolicyStep(configs)
    \/ ResetAcquire \/ ResetRestore \/ ReapplyGoal \/ RobotSend \/ PublishLabel

-----------------------------------------------------------------------------
(* The request handlers (lines 385-439) and the startup sequencer (lines   *)
(* 357-372).  Each takes the lock; none can start while the lock is held.  *)

\* frame of a handler step that writes one of the shared flags
HandlerFrame ==
    UNCHANGED << out_sim, out_robot, mode_text, stop, procVars, robot_ok, capVars, envVars, clock,
                 pc, loopLocals, ticks, forced_run >>

\* a coordinate the model still follows
InModelRange(g) ==
    \A i \in 1..3 : low[i] - GoalSlack <= g[i] /\ g[i] <= high[i] + GoalSlack

\* what /status returns (lines 388-394)
StatusData ==
    [ goal |-> goal_xyz, mode |-> mode_text, out_sim |-> out_sim,
      out_robot |-> (out_robot /\ robot_ok), robot_ok |-> robot_ok ]

\* GET /status (lines 385-395): a read under the lock
Status ==
    /\ lock = "free"
    /\ StatusData.goal = goal_xyz
    /\ UNCHANGED vars

\* POST /nudge (lines 397-409)
Nudge(axis, delta) ==
    /\ lock = "free"
    /\ InModelRange(NudgeGoal(goal_xyz, axis, delta))
    /\ goal_xyz' = NudgeGoal(goal_xyz, axis, delta)
    /\ UNCHANGED << out_sim, out_robot, sharedFlags, mode_text, stop,
                    procVars, lock, robot_ok, capVars, envVars, clock, pc, loopLocals, hpc, startupVars,
                    ticks, forced_run, coll_latch >>

\* POST /set_goal, lines 417-418: take the lock, shared.goal_xyz[:] = (x, y, z)
SetGoalBegin(g) ==
    /\ lock = "free"
    /\ lock' = "handler"
    /\ goal_xyz' = g
    /\ hpc' = "sg_cf"
    /\ coll_latch' = FALSE
    /\ UNCHANGED << sharedFlags, startupVars >>
    /\ HandlerFrame

\* line 420: shared.collision_freeze = False
SetGoalFreeze ==
    /\ hpc = "sg_cf"
    /\ collision_freeze' = FALSE
    /\ hpc' = "sg_hold"
    /\ coll_latch' = FALSE
    /\ UNCHANGED << goal_xyz, hold_mode, manual_until, lock, startupVars >>
    /\ HandlerFrame

\* line 421: shared.hold_mode = False
SetGoalHold ==
    /\ hpc = "sg_hold"
    /\ hold_mode' = FALSE
    /\ hpc' = "sg_until"
    /\ coll_latch' = FALSE
    /\ UNCHANGED << goal_xyz, collision_freeze, manual_until, lock, startupVars >>
    /\ HandlerFrame

\* line 422: shared.manual_until = time.time() + 0.5, and the lock is released
SetGoalUntil ==
    /\ hpc = "sg_until"
    /\ manual_until' = clock + OverrideWindow
    /\ hpc' = "idle"
    /\ lock' = "free"
    /\ coll_latch' = FALSE
    /\ UNCHANGED << goal_xyz, hold_mode, collision_freeze, startupVars >>
    /\ HandlerFrame

\* POST /go, lines 428-429: take the lock, shared.collision_freeze = False
GoBegin ==
    /\ lock = "free"
    /\ lock' = "handler"
    /\ collision_freeze' = FALSE
    /\ hpc' = "go_hold"
    /\ coll_latch' = FALSE
    /\ UNCHANGED << goal_xyz, hold_mode, manual_until, startupVars >>
    /\ HandlerFrame

\* line 430: shared.hold_mode = False, and the lock is released
GoEnd ==
    /\ hpc = "go_hold"
    /\ hold_mode' = FALSE
    /\ hpc' = "idle"
    /\ lock' = "free"
    /\ coll_latch' = FALSE
    /\ UNCHANGED << goal_xyz, collision_freeze, manual_until, startupVars >>
    /\ HandlerFrame

\* a variant of SetRobot in which disabling the output also enters HOLD
SetRobotHolds(enabled) ==
    /\ lock = "free"
    /\ out_robot' = (enabled /\ robot_ok)
    /\ hold_mode' = (IF enabled THEN hold_mode ELSE TRUE)
    /\ UNCHANGED << goal_xyz, out_sim, collision_freeze, manual_until,
                    mode_text, stop, procVars, lock, robot_ok, capVars, envVars, clock,
                    pc, loopLocals, hpc, startupVars, ticks, forced_run,
                    coll_latch >>

\* POST /set_robot (lines 433-439)
SetRobot(enabled) ==
    /\ lock = "free"
    /\ out_robot' = (enabled /\ robot_ok)
    /\ UNCHANGED << goal_xyz, out_sim, sharedFlags, mode_text, stop,
                    procVars, lock, robot_ok, capVars, envVars, clock, pc, loopLocals, hpc, startupVars,
                    ticks, forced_run, coll_latch >>

\* run_poses_on_startup, lines 367-368: once the sleep(1) after the previous
\* pose is over, take the lock and write the next pose
StartupBegin ==
    /\ st_idx < Len(poses)
    /\ clock >= st_wake
    /\ lock = "free"
    /\ lock' = "handler"
    /\ goal_xyz' = poses[st_idx + 1]
    /\ st_idx' = st_idx + 1
    /\ hpc' = "st_cf"
    /\ coll_latch' = FALSE
    /\ UNCHANGED << sharedFlags, st_wake >>
    /\ HandlerFrame

\* line 369: shared.collision_freeze = False
StartupFreeze ==
    /\ hpc = "st_cf"
    /\ collision_freeze' = FALSE
    /\ hpc' = "st_hold"
    /\ coll_latch' = FALSE
    /\ UNCHANGED << goal_xyz, hold_mode, manual_until, lock, startupVars >>
    /\ HandlerFrame

\* line 370: shared.hold_mode = False
StartupHold ==
    /\ hpc = "st_hold"
    /\ hold_mode' = FALSE
    /\ hpc' = "st_until"
    /\ coll_latch' = FALSE
    /\ UNCHANGED << goal_xyz, collision_freeze, manual_until, lock, startupVars >>
    /\ HandlerFrame

\* lines 371-372: shared.manual_until = time.time() + 0.5, the lock is
\* released and time.sleep(1) begins
StartupUntil ==
    /\ hpc = "st_until"
    /\ manual_until' = clock + OverrideWindow
    /\ st_wake' = clock + StartupSleep
    /\ hpc' = "idle"
    /\ lock' = "free"
    /\ coll_latch' = FALSE
    /\ UNCHANGED << goal_xyz, hold_mode, collision_freeze, st_idx >>
    /\ HandlerFrame

\* robot.ok, the connectivity the actuator bus reports, changes on its own
BusChange ==
    /\ robot_ok' = ~robot_ok
    /\ UNCHANGED << goal_xyz, out_sim, out_robot, sharedFlags, mode_text, stop,
                    procVars, lock, capVars, envVars, clock, pc, loopLocals, hpc, startupVars,
                    ticks, forced_run, coll_latch >>

-----------------------------------------------------------------------------
(* Failure of a simulation or policy call (lines 255, 258, 260, 265).  No  *)
(* try/except surrounds them in run_control_loop, so the exception leaves  *)
(* every "with" block, which releases the lock, and ends the thread.       *)

LoopRaises ==
    /\ pc \in { "l255", "l258", "l260", "l265" }
    /\ pc' = "raised"
    /\ lock' = IF pc = "l258" THEN lock ELSE "free"
    /\ UNCHANGED << goal_xyz, out_sim, out_robot, sharedFlags, mode_text, stop,
                    procVars, robot_ok, capVars, envVars, clock, loopLocals, hpc,
                    startupVars, ticks, forced_run, coll_latch >>

-----------------------------------------------------------------------------
(* The SIGINT handler _sigint (lines 442-450).  Python runs it in the main *)
(* thread between two bytecodes of whatever that thread executes, the      *)
(* handler itself included: a signal that arrives while a frame of _sigint *)
(* is running starts a nested frame.  No frame returns, each ends in       *)
(* SystemExit, which unwinds them all.                                     *)

\* frame of a handler step of the main thread
SigFrame ==
    UNCHANGED << goal_xyz, out_sim, out_robot, sharedFlags, mode_text, lock,
                 robot_ok, capVars, envVars, clock, pc, loopLocals, hpc, startupVars,
                 ticks, forced_run, coll_latch >>

\* the innermost frame of _sigint is at position p
SigAt(p) == Len(sig) > 0 /\ sig[Len(sig)] = p

\* the innermost frame moves to position p
SigGoto(p) == [ sig EXCEPT ![Len(sig)] = p ]

\* SIGINT is delivered: a frame of _sigint starts (line 442)
SigArrive ==
    /\ ~exited
    /\ Len(sig) < MaxSignals
    /\ sig' = Append(sig, "s443")
    /\ UNCHANGED << stop, closes, exited >>
    /\ SigFrame

\* line 443: shared.stop = True
SigStop ==
    /\ ~exited
    /\ SigAt("s443")
    /\ stop' = TRUE
    /\ sig' = SigGoto("s445")
    /\ UNCHANGED << closes, exited >>
    /\ SigFrame

\* lines 444-447: env.close(), any Exception swallowed
SigClose ==
    /\ ~exited
    /\ SigAt("s445")
    /\ closes' = closes + 1
    /\ sig' = SigGoto("s449")
    /\ UNCHANGED << stop, exited >>
    /\ SigFrame

\* lines 449-450: time.sleep(0.1) returns and SystemExit(0) is raised.  The
\* main thread ends, and with it the process: the loop thread, the startup
\* thread and the request threads are daemon threads and stop wherever
\* they are.
SigExit ==
    /\ ~exited
    /\ SigAt("s449")
    /\ exited' = TRUE
    /\ pc' = "killed"
    /\ hpc' = "killed"
    /\ lock' = "killed"
    /\ UNCHANGED << goal_xyz, out_sim, out_robot, sharedFlags, mode_text, stop,
                    sig, closes, robot_ok, capVars, envVars, clock, loopLocals,
                    startupVars, ticks, forced_run, coll_latch >>

Sigint == SigArrive \/ SigStop \/ SigClose \/ SigExit

SetGoal(goals) == \E g \in goals : SetGoalBegin(g)
NudgeAny(nudges) == \E n \in nudges : Nudge(n[1], n[2])
SetRobotAny == \E enabled \in BOOLEAN : SetRobot(enabled)

Handlers(goals, nudges) ==
    \/ Status \/ NudgeAny(nudges) \/ SetRobotAny
    \/ SetGoal(goals) \/ SetGoalFreeze \/ SetGoalHold \/ SetGoalUntil
    \/ GoBegin \/ GoEnd
    \/ StartupBegin \/ StartupFreeze \/ StartupHold \/ StartupUntil

-----------------------------------------------------------------------------
(* Specifications.  The goal store, the arbiter, the simulation and the    *)
(* actuator gate are nearly independent, and their product is too large to *)
(* explore; each specification runs the whole loop with request handlers   *)
(* and draws the inputs of one of these parts from its full set and the    *)
(* others from a single value.                                             *)

\* Spec: the arbiter.  Every distance, clean and colliding configurations,
\* short sleeps and stalls as long as the override window; one goal, a no-op
\* nudge, the bus never connected.
Init == InitWith({FALSE})
Next ==
    \/ Loop({SleepFloor, OverrideWindow}, DistValues, {DefaultPose, 2})
    \/ Handlers({poses[1]}, {<< "w", 0 >>})
Spec == Init /\ [][Next]_vars

\* SpecGoal: the goal store.  A goal outside the workspace, nudges on a
\* known and on an unknown axis; one sleep duration, the distances and
\* configurations that every branch of the loop needs.
NextGoal ==
    \/ Loop({SleepFloor}, {20, 60}, {DefaultPose, 2})
    \/ Handlers(GoalInputs, NudgeInputs)
SpecGoal == Init /\ [][NextGoal]_vars

\* SpecEnv: the simulation.  Every configuration the steps may produce.
NextEnv ==
    \/ Loop({SleepFloor}, {20, 60}, QposValues)
    \/ Handlers({poses[1]}, {<< "w", 0 >>})
SpecEnv == Init /\ [][NextEnv]_vars

\* SpecRobot: the actuator gate.  The bus connects and disconnects, the
\* client enables and disables the output, the startup sequencer opens the
\* override window, sleeps of 5 ms and of 20 ms.  set_goal and go write
\* nothing the gate reads and are left to the other specifications.
InitRobot == InitWith(BOOLEAN)
NextRobot ==
    \/ Loop({SleepFloor, MinInterval}, {20, 60}, {DefaultPose, 2})
    \/ Status \/ NudgeAny({<< "w", 0 >>}) \/ SetRobotAny
    \/ StartupBegin \/ StartupFreeze \/ StartupHold \/ StartupUntil
    \/ BusChange
SpecRobot == InitRobot /\ [][NextRobot]_vars

\* the loop with one sleep duration and the inputs every branch needs; the
\* startup sequencer
LoopSteps == Loop({SleepFloor}, {20, 60}, {DefaultPose, 2})
StartupSteps == StartupBegin \/ StartupFreeze \/ StartupHold \/ StartupUntil

\* SpecScan: the safety scan.  Environments with and without the geometry
\* id sets and the mujoco module, every contact list.
InitScan == InitEnv({ FALSE }, BOOLEAN, BOOLEAN)
NextScan ==
    \/ Loop({SleepFloor}, {20, 60}, ScanConfigs)
    \/ StartupSteps
SpecScan == InitScan /\ [][NextScan]_vars

\* SpecSurface: the control surface.  Nudges that move the goal, the robot
\* output enabled and disabled while the bus connects and disconnects.
NextSurface ==
    \/ Loop({SleepFloor}, {20, 60}, {DefaultPose, 2})
    \/ Status \/ NudgeAny(NudgeInputs) \/ SetRobotAny
    \/ StartupSteps
    \/ BusChange
SpecSurface == Init /\ [][NextSurface]_vars

\* SpecStop: shutdown and failure.  SIGINT arrives at any moment, also while
\* _sigint is running; a simulation or policy call may raise; set_goal, go
\* and status run alongside.
NextStop ==
    \/ Loop({SleepFloor}, {20, 60}, {DefaultPose, 2})
    \/ LoopRaises
    \/ Sigint
    \/ Status \/ GoBegin \/ GoEnd
    \/ SetGoal({poses[1]}) \/ SetGoalFreeze \/ SetGoalHold \/ SetGoalUntil
SpecStop == Init /\ [][NextStop]_vars

\* FairStop: the loop, the startup sequencer and SIGINT, with calls that
\* return.  The loop thread and the startup thread keep being scheduled: a
\* step of theirs that stays possible is eventually taken.  Nothing is
\* assumed of the main thread, which may stay in _sigint for ever.
NextFair ==
    \/ LoopSteps
    \/ StartupSteps
    \/ Sigint
FairStop ==
    /\ Init
    /\ [][NextFair]_vars
    /\ WF_vars(LoopSteps)
    /\ WF_vars(StartupSteps)

-----------------------------------------------------------------------------
(* Properties.                                                             *)

\* a goal within [low, high] on every axis
InBounds(g) == \A i \in 1..3 : low[i] <= g[i] /\ g[i] <= high[i]

\* positions of the loop after the arbiter (lines 253-309)
AfterArbiter ==
    { "l253", "l254", "l255", "l258", "l260", "l264", "l265", "l270", "l275",
      "l309" }

\* C1, as stated: once a scan has reported a collision, collision_freeze is
\* true at the end of that tick and of every later tick until a go or
\* set_goal (or startup) command runs after that scan; an override window
\* opened before the collided tick is claimed not to clear it.
C1_StickyCollision == (pc = "top" /\ coll_latch) => collision_freeze

\* C1, amended: a collided scan sets collision_freeze at line 237, and
\* collision_freeze goes from true to false only by a write of go, set_goal
\* or the startup sequencer, or by line 251 in a tick whose test at line 249
\* found now < manual_until; never by the distance hysteresis.
C1_StickyUnlessOverridden ==
    [][ /\ (pc = "l236" /\ pc' = "l238" /\ collided) => collision_freeze'
        /\ (collision_freeze /\ ~collision_freeze')
              => (hpc' # hpc \/ (pc = "l251" /\ forced_run)) ]_vars

\* C1 witness: a tick after the collided one, its own scan clean and the
\* distance above 0.05 m, has passed the hysteresis with the freeze still set.
C1_Witness ==
    pc = "l248" /\ coll_latch /\ ~collided /\ dist = 60 /\ collision_freeze

\* C2: collision_freeze implies hold_mode where the loop chooses the action
\* (line 253), where it publishes the label (line 309) and at every tick
\* boundary.
C2_FreezeImpliesHold ==
    pc \in { "l253", "l309", "top" } => (collision_freeze => hold_mode)

\* C3: in a tick whose test at line 249 found now < manual_until, from line
\* 253 to the end of the tick hold_mode and collision_freeze are false, and
\* the label published is "RUN ".
C3_OverridePrecedence ==
    /\ [](forced_run /\ pc \in AfterArbiter
             => ~hold_mode /\ ~collision_freeze)
    /\ [][ (forced_run /\ pc = "l309" /\ pc' = "top")
             => mode_text' = "RUN " ]_vars

\* C3 witness: an overridden tick whose scan reported a collision is about to
\* publish its label.
C3_Witness == pc = "l309" /\ forced_run /\ collided

\* C4: outside the collision branch (line 239) and the override (line 250),
\* a step of the loop changes hold_mode from false to true only with
\* dist < 0.03 m and from true to false only with dist > 0.05 m, and with
\* dist within [0.03, 0.05] m it leaves hold_mode as it is.
C4_Hysteresis ==
    [][ (pc' # pc /\ pc \notin { "l239", "l250" })
           => /\ (~hold_mode /\ hold_mode') => (dist # None /\ dist < EnterDist)
              /\ (hold_mode /\ ~hold_mode') => (dist # None /\ dist > ExitDist)
              /\ (dist # None /\ EnterDist <= dist /\ dist <= ExitDist)
                    => hold_mode' = hold_mode ]_vars

\* C4 witness: the second tick, with no collision so far, has passed the
\* hysteresis at 0.04 m still in the HOLD it entered in the first tick.
C4_Witness ==
    /\ pc = "l248" /\ ticks = 2 /\ ~collided /\ ~collision_freeze
    /\ hold_mode /\ dist = 40

C6_RateLimit ==
    [][ last_robot_send' # last_robot_send
           => /\ pc = "l275" /\ l_out_robot /\ robot_ok
              /\ last_robot_send' - last_robot_send > MinInterval ]_vars

\* C6 witness: a send was made, the tick after it sent nothing, and 25 ms
\* after the send the loop is about to send again.
C6_Witness ==
    /\ pc = "l275" /\ last_robot_send > 0
    /\ clock - last_robot_send = MinInterval + SleepFloor
    /\ MaySend(l_out_robot, robot_ok, clock, last_robot_send)

\* C7: the stored goal, and the goal /status returns, lie within [low, high]
\* on every axis in every reachable state.
C7_GoalWithinBounds == InBounds(goal_xyz) /\ InBounds(StatusData.goal)

\* C8: a nudge adds delta to the chosen axis of the CLAMPED goal: the next
\* clamped read is clamp(clamp(g) + delta on that axis), g the goal stored
\* before the nudge; an unknown axis leaves the goal unchanged.
C8_NudgeOnClampedGoal ==
    [][ \A n \in NudgeInputs :
          Nudge(n[1], n[2])
             => /\ Clip(goal_xyz') = Clip(NudgeGoal(Clip(goal_xyz), n[1], n[2]))
                /\ (AxisIndex(n[1]) = 0 => goal_xyz' = goal_xyz) ]_vars

\* C9: set_goal and go both leave manual_until later than the time of the
\* command, and manual_until never decreases.
C9_CommandsOpenWindow ==
    [][ /\ ((hpc \in { "sg_until", "go_hold" } /\ hpc' = "idle")
               => manual_until' > clock)
        /\ manual_until' >= manual_until ]_vars

\* C10: the label a tick publishes is "COLL" when collision_freeze is true,
\* "HOLD" when hold_mode is true without it, and "RUN " otherwise.
C10_ModeLabel ==
    [][ (pc = "l309" /\ pc' = "top")
           => mode_text' = (IF collision_freeze THEN "COLL"
                            ELSE IF hold_mode THEN "HOLD" ELSE "RUN ") ]_vars


\* positions of the loop whose next step reads or writes a field of Shared:
\* shared.stop (line 200), hold_mode / collision_freeze / manual_until (lines
\* 238-253, and line 237 when collided), mode_text (line 309)
LoopSharedAccess ==
    { "top", "l238", "l239", "l241", "l242", "l243", "l244", "l245", "l248",
      "l250", "l251", "l253", "l309" } \cup (IF collided THEN { "l236" } ELSE { })

\* positions of the loop inside the arbiter update, after its first step
InsideArbiter ==
    { "l238", "l239", "l241", "l242", "l243", "l244", "l245", "l248", "l250",
      "l251" }

\* C11: Lock discipline: every step of the control loop that
\* reads or writes shared state is taken with the lock held by the loop, the
\* shutdown handler writes the stop flag with the lock held, and while the
\* loop is inside its arbiter update no other thread changes hold_mode or
\* collision_freeze.
C11_LockDiscipline ==
    [][ /\ (pc \in LoopSharedAccess /\ pc' # pc /\ pc' # "killed")
              => lock = "loop"
        /\ (stop' # stop) => lock = "handler"
        /\ (pc \in InsideArbiter /\ pc' = pc)
              => UNCHANGED << hold_mode, collision_freeze >> ]_vars

\* positions of the loop at which env.step (lines 255, 260) or env.reset
\* (line 265) is the call in progress
InSimulationCall == { "l255", "l260", "l265" }

\* C12: While env.step, env.reset or policy.predict is in
\* progress the loop does not hold the lock, so that a request handler can
\* take it.
C12_NoLockDuringCalls ==
    pc \in (InSimulationCall \cup { "l258" }) => lock # "loop"

\* C13: env.close is invoked exactly once over any shutdown
\* sequence: never more than once, and once when the process has exited,
\* also when a second SIGINT arrives while the first is being handled.
C13_CloseExactlyOnce ==
    /\ closes <= 1
    /\ exited => closes = 1

\* C14: Cooperative stop: the loop leaves only at its check of the flag at
\* the top of an iteration (line 200), and a check that finds the flag set
\* starts no new iteration; setting the flag moves neither the loop nor a
\* call it is in; and once the flag is set the loop eventually terminates
\* (or the process has exited), given that the calls return and the loop
\* thread keeps being scheduled.
C14_CooperativeStop ==
    /\ [][ /\ (pc = "top" /\ stop /\ pc' # pc) => pc' \in { "exit", "killed" }
           /\ (pc' = "exit" /\ pc # "exit") => (pc = "top" /\ stop)
           /\ (pc = "exit") => pc' \in { "exit", "killed" }
           /\ (stop' # stop)
                 => (pc' = pc /\ UNCHANGED << lock, loopLocals, envVars >>) ]_vars
    /\ (stop ~> (pc = "exit" \/ exited))

\* C14 witness: the flag was set during the last iteration followed, the
\* loop finished it and left at its next check, the process still running.
C14_Witness == pc = "exit" /\ stop /\ ~exited /\ ticks = MaxTicks /\ closes = 0

\* the response of /status presents the loop as running: it carries a mode
\* label of the loop and no field that says otherwise (lines 388-394)
StatusShowsLoopRunning ==
    /\ StatusData.mode \in { "RUN ", "HOLD", "COLL" }
    /\ DOMAIN StatusData = { "goal", "mode", "out_sim", "out_robot", "robot_ok" }

\* C15: Once env.step, env.reset or policy.predict has raised
\* the loop is terminated, and the status query no longer presents it as
\* running with its last published mode label.
C15_FailureSurfaced == pc = "raised" => ~StatusShowsLoopRunning

\* a step of a single-statement handler: not of the loop, not of set_goal,
\* go or the startup sequencer, not of _sigint, not a change of the bus
SurfaceStep ==
    /\ pc' = pc /\ hpc' = hpc /\ lock' = lock /\ robot_ok' = robot_ok
    /\ UNCHANGED << procVars, startupVars >>

\* C16: Frame conditions: status changes nothing; a step that changes the
\* goal without set_goal or the startup sequencer is a nudge and changes
\* the goal only; a step that changes the robot-output flag is a set_robot
\* and changes that flag only; none of them changes hold_mode,
\* collision_freeze or manual_until.
C16_FrameConditions ==
    [][ /\ Status => UNCHANGED vars
        /\ SurfaceStep =>
              /\ UNCHANGED << sharedFlags, mode_text, stop, out_sim, envVars,
                              loopLocals, clock >>
              /\ goal_xyz' = goal_xyz \/ out_robot' = out_robot
        /\ (\E n \in NudgeInputs : Nudge(n[1], n[2])) =>
              (SurfaceStep /\ out_robot' = out_robot)
        /\ (\E enabled \in BOOLEAN : SetRobot(enabled)) =>
              (SurfaceStep /\ goal_xyz' = goal_xyz) ]_vars

\* C16 witness: a nudge has moved the goal and set_robot has enabled the
\* output (it starts disabled, the bus not connected), while the arbiter is
\* in COLLISION with the window the startup sequencer opened still there.
C16_Witness ==
    /\ goal_xyz[1] = poses[1][1] - 700
    /\ out_robot
    /\ hold_mode /\ collision_freeze /\ manual_until > 0

\* C17: Clamping: the clamp of the stored goal lies within [low, high] on
\* every axis and clamping it again changes nothing; the read of lines
\* 203-205 returns the clamp of the stored goal and stores it back, so a read
\* that finds the goal as the previous read left it returns the same value
\* and leaves the stored goal unchanged.
C17_ClampIdempotent ==
    /\ [](InBounds(Clip(goal_xyz)) /\ Clip(Clip(goal_xyz)) = Clip(goal_xyz))
    /\ [][ (pc = "read" /\ pc' = "scan") =>
              /\ p_goal' = Clip(goal_xyz)
              /\ goal_xyz' = p_goal'
              /\ (ticks > 1 /\ goal_xyz = p_goal) =>
                    (p_goal' = p_goal /\ goal_xyz' = goal_xyz) ]_vars

\* C17 witness: set_goal stored a point outside the workspace on every axis,
\* the first tick read it clamped, and the second tick has read it again.
C17_Witness ==
    /\ pc = "scan" /\ ticks = 2
    /\ p_goal = Clip(<< 900, -700, 300 >>)
    /\ p_goal # << 900, -700, 300 >>
    /\ goal_xyz = p_goal

\* C18: Every env.step that reports episode termination, made
\* with the policy action (line 260) or with the null action (line 255), is
\* followed by the reset of lines 264-272.
C18_TerminationHandled ==
    [][ (pc \in { "l255", "l260" } /\ step_done') => pc' = "l264" ]_vars

\* C19: Whenever a LastSafeConfiguration exists the scan of
\* lines 215-232 reports no unsafe contact on it, and so on the pose that
\* lines 266-267 restore.
C19_LastSafeCollisionFree ==
    /\ last_safe_qpos # None => ~Scan(ContactsOf(last_safe_qpos))
    /\ (pc = "l270" /\ last_safe_qpos # None) => ~Scan(ContactsOf(qpos))

\* C20: Idle stepping: at the decision of line 253 the loop
\* takes the null-action branch exactly when the mode is HOLD or COLLISION
\* (hold_mode or collision_freeze) or both sinks are disabled, and the policy
\* branch only when the mode is RUN with a sink enabled.
C20_IdleStepping ==
    [][ (pc = "l253" /\ pc' # pc) =>
          (pc' = "l254" <=>
             (hold_mode \/ collision_freeze \/ ~(l_out_sim \/ l_out_robot))) ]_vars

\* a contact that pairs an arm geometry with a protected one, of which
\* neither body is a hand part, and that penetrates by more than 2 mm
QualifyingContact(c) ==
    /\ \/ (c.geom1 = "arm" /\ c.geom2 = "prot")
       \/ (c.geom2 = "arm" /\ c.geom1 = "prot")
    /\ ~(c.hand1 \/ c.hand2)
    /\ Max(0, -c.dist) > PenThreshold

\* C21: the scan of a tick reports collided exactly when the environment
\* exposes collision data and some contact of the current configuration
\* pairs an arm geometry with a protected one, has no hand body and
\* penetrates by more than 2 mm (exactly 2 mm is clean); and the scan
\* changes neither the shared state nor the simulation.
C21_ScanClassification ==
    [][ (pc = "scan" /\ pc' = "l236") =>
          /\ collided' =
                (has_gids /\ \E i \in 1..Len(ContactsOf(qpos)) :
                                QualifyingContact(ContactsOf(qpos)[i]))
          /\ UNCHANGED << goal_xyz, out_sim, out_robot, sharedFlags, mode_text,
                          stop, envVars, capVars >> ]_vars

\* positions of the loop whose next step uses the simulation: env.p_goal is
\* written (lines 210, 270), the contacts and the forward kinematics are
\* read (lines 218-235), env.step or env.reset is called (lines 255, 260,
\* 265), env.data.qpos is read for a send (line 304)
UsesSimulation ==
    InSimulationCall \cup { "read", "scan", "l270" } \cup
    (IF MaySend(l_out_robot, robot_ok, clock, last_robot_send)
     THEN { "l275" } ELSE { })

\* C22: once env.close has been called the loop takes no step that calls
\* env.step or env.reset or that reads or writes simulation state, whether
\* it was sleeping or inside its tick when the stop flag was set.
C22_NoUseAfterRelease ==
    [][ (closes > 0 /\ pc' # pc /\ pc' # "killed") =>
          pc \notin UsesSimulation ]_vars

=============================================================================
